---- MODULE Spec2Model ----
(***************************************************************************)
(* Token-call verification job of dyor-hub                                 *)
(* (apps/api/src/token-calls/token-call-verification.service.ts).          *)
(*                                                                         *)
(* The job is one async method chain handleCron -> verifyPendingCalls ->   *)
(* verifySingleCall -> updateUserTokenCallStreak.  Every `await` is a      *)
(* suspension point, so each action below is the code that runs between    *)
(* two awaits; `pc` names the await the run is suspended at.  Results of   *)
(* the awaited collaborators (price provider, repositories, badge service) *)
(* are drawn nondeterministically, failures included.                      *)
(*                                                                         *)
(* Time is counted in clock ticks ("milliseconds" of the model); a second  *)
(* is MsPerSec ticks, so Math.floor(getTime() / 1000) and unixTime * 1000  *)
(* are real conversions between the two units.                             *)
(***************************************************************************)
EXTENDS Integers, Sequences, FiniteSets, TLC

----------------------------------------------------------------------------
(* Bounds of the model *)

\* last clock tick the model follows
MaxTime == 6
\* latest target date of a call in the store
MaxTargetDate == 3
\* clock ticks per second (1000 in the code, scaled)
MsPerSec == 2
\* rows of the Token Call Store when a batch is followed
NumCalls == 2
\* largest price and longest sample sequence when a batch is followed
BatchMaxPrice == 1
BatchMaxSamples == 1
\* largest price and longest sample sequence when a single call is followed
MaxPrice == 2
MaxSamples == 2

\* setTimeout(resolve, 1000): the inter-record delay, in seconds
DelaySecs == 1

\* null / undefined of a numeric or Date column
Null == -1

Users == {"u1", "u2"}
Tokens == {"t1"}

\* TokenCallStatus
PENDING == "PENDING"
VERIFIED_SUCCESS == "VERIFIED_SUCCESS"
VERIFIED_FAIL == "VERIFIED_FAIL"
ERROR == "ERROR"
Terminal == {VERIFIED_SUCCESS, VERIFIED_FAIL, ERROR}

\* timeToHitRatio is a quotient; it is kept as <<numerator, denominator>>
NoRatio == <<Null, 1>>

Max(a, b) == IF a >= b THEN a ELSE b

----------------------------------------------------------------------------
VARIABLES
    now,            \* the wall clock (new Date())
    calls,          \* Token Call Store: id -> TokenCallEntity row
    streaks,        \* Streak Store: userId -> UserTokenCallStreakEntity row
    isJobRunning,   \* the re-entrancy guard
    inFlight,       \* number of verifyPendingCalls executions in flight
    pc,             \* the await the run is suspended at ("idle": no run)
    runNow,         \* `now` of verifyPendingCalls (line 49)
    pendingCalls,   \* the entities the due-query returned (mutated in place)
    idx,            \* position of the for-loop in pendingCalls
    fetched,        \* how the price-history request of the current record ended
    priceHistory,   \* priceHistory.items of the current record
    streak,         \* the entity updateUserTokenCallStreak loaded or created
    wakeAt,         \* when the setTimeout of the delay fires
    attempted,      \* ids verifySingleCall was invoked for in this run, in order
    badgeChecks,    \* ids checkTokenCallSuccessBadges was invoked for
    dueSeen,        \* calls whose target date had passed at the latest due-query
    newlyDue        \* this run's due-query saw a target date no earlier one saw

vars == <<now, calls, streaks, isJobRunning, inFlight, pc, runNow, pendingCalls,
          idx, fetched, priceHistory, streak, wakeAt, attempted,
          badgeChecks, dueSeen, newlyDue>>

stores == <<calls, streaks>>

\* the ids of the rows of the Token Call Store
CallIds == DOMAIN calls
runLocals == <<runNow, pendingCalls, idx, fetched, priceHistory, streak, wakeAt,
               attempted, newlyDue>>

----------------------------------------------------------------------------
(* Entities *)

NewCall(id, user, token, target, callTs, targetDate) ==
    [id |-> id, userId |-> user, tokenId |-> token, targetPrice |-> target,
     referencePrice |-> 1, referenceSupply |-> 1,
     callTimestamp |-> callTs, targetDate |-> targetDate,
     status |-> PENDING,
     peakPriceDuringPeriod |-> Null, finalPriceAtTargetDate |-> Null,
     targetHitTimestamp |-> Null, timeToHitRatio |-> NoRatio,
     verificationTimestamp |-> Null]

NoStreak == [exists |-> FALSE, currentSuccessStreak |-> 0,
             longestSuccessStreak |-> 0, lastVerifiedCallTimestamp |-> Null]

\* a create() that counts the call being folded already
CreateStreak_StartsAtOne == [exists |-> TRUE, currentSuccessStreak |-> 1,
                            longestSuccessStreak |-> 1,
                            lastVerifiedCallTimestamp |-> Null]

\* tokenCallStreakRepository.create({...})
CreateStreak == [exists |-> TRUE, currentSuccessStreak |-> 0,
                 longestSuccessStreak |-> 0, lastVerifiedCallTimestamp |-> Null]

\* the record the for-loop is at
Cur == pendingCalls[idx]

InRecord == pc \in {"fetch", "streakFind", "streakSave", "save", "errSave",
                    "badge", "delay"}

----------------------------------------------------------------------------
(* Date <-> unix seconds *)

\* Math.floor(date.getTime() / 1000)
ToUnix(ms) == ms \div MsPerSec

\* new Date(unixTime * 1000).getTime()
FromUnix(secs) == secs * MsPerSec

----------------------------------------------------------------------------
(* TokensService.getTokenPriceHistory: what the call can come back with *)

ErrorKinds == {"rateLimit", "birdeyeApi", "unknown"}

\* startTimeUnix >= endTimeUnix: { items: [] } is returned without a request
InvalidRange(call) == ToUnix(call.callTimestamp) >= ToUnix(call.targetDate)

IsTimeOrdered(s) == \A k \in 1..(Len(s) - 1) : s[k].unixTime < s[k + 1].unixTime

\* data.data.items of a 200 answer for time_from..time_to
\* (at most maxLen samples, prices 0..maxPrice)
SampleSeqs(call, maxLen, maxPrice) ==
    LET pts == [unixTime : ToUnix(call.callTimestamp)..ToUnix(call.targetDate),
                value : 0..maxPrice]
    IN  {s \in UNION {[1..n -> pts] : n \in 1..maxLen} : IsTimeOrdered(s)}

----------------------------------------------------------------------------
(* verifySingleCall, step 2: the scan of priceHistory.items *)

\* a scan in which every sample at or above the target replaces the hit
RECURSIVE Scan_LastHit(_, _, _, _, _)
Scan_LastHit(items, k, peak, hit, targetPriceNum) ==
    IF k > Len(items) THEN [peak |-> peak, hit |-> hit]
    ELSE LET pricePoint == items[k]
             peak2 == IF pricePoint.value > peak THEN pricePoint.value ELSE peak
             hit2 == IF pricePoint.value >= targetPriceNum
                     THEN FromUnix(pricePoint.unixTime) ELSE hit
         IN  Scan_LastHit(items, k + 1, peak2, hit2, targetPriceNum)

\* the for-loop of lines 135-142 from item k on
RECURSIVE Scan(_, _, _, _, _)
Scan(items, k, peak, hit, targetPriceNum) ==
    IF k > Len(items) THEN [peak |-> peak, hit |-> hit]
    ELSE LET pricePoint == items[k]
             peak2 == IF pricePoint.value > peak THEN pricePoint.value ELSE peak
             hit2 == IF pricePoint.value >= targetPriceNum /\ hit = Null
                     THEN FromUnix(pricePoint.unixTime) ELSE hit
         IN  Scan(items, k + 1, peak2, hit2, targetPriceNum)

\* a ratio that divides by the duration whatever its sign
TimeToHitRatio_NoZeroGuard(call, targetHitTimestamp) ==
    LET callDurationMs == call.targetDate - call.callTimestamp
        timeToHitMs == targetHitTimestamp - call.callTimestamp
    IN  <<Max(0, timeToHitMs), callDurationMs>>

\* a ratio whose numerator is not clamped at 0
TimeToHitRatio_NoClamp(call, targetHitTimestamp) ==
    LET callDurationMs == call.targetDate - call.callTimestamp
        timeToHitMs == targetHitTimestamp - call.callTimestamp
    IN  IF callDurationMs > 0
        THEN <<timeToHitMs, callDurationMs>>
        ELSE <<IF timeToHitMs > 0 THEN 1 ELSE 0, 1>>

\* lines 156-166
TimeToHitRatio(call, targetHitTimestamp) ==
    LET callDurationMs == call.targetDate - call.callTimestamp
        timeToHitMs == targetHitTimestamp - call.callTimestamp
    IN  IF callDurationMs > 0
        THEN <<Max(0, timeToHitMs), callDurationMs>>
        ELSE <<IF timeToHitMs > 0 THEN 1 ELSE 0, 1>>

\* an outcome test that wants the peak strictly above the target
IsSuccess_StrictPeak(peakPriceDuringPeriod, targetHitTimestamp, targetPriceNum) ==
    peakPriceDuringPeriod > targetPriceNum /\ targetHitTimestamp # Null

\* the outcome test of lines 149-152
IsSuccess(peakPriceDuringPeriod, targetHitTimestamp, targetPriceNum) ==
    peakPriceDuringPeriod >= targetPriceNum /\ targetHitTimestamp # Null

\* an analysis whose miss branch stores a ratio of 0 instead of null
Analyze_FailZeroRatio(call, items, t) ==
    LET r == Scan(items, 1, 0, Null, call.targetPrice)
        base == [call EXCEPT !.peakPriceDuringPeriod = r.peak,
                             !.finalPriceAtTargetDate = items[Len(items)].value,
                             !.verificationTimestamp = t]
    IN  IF IsSuccess(r.peak, r.hit, call.targetPrice)
        THEN [base EXCEPT !.status = VERIFIED_SUCCESS,
                          !.targetHitTimestamp = r.hit,
                          !.timeToHitRatio = TimeToHitRatio(call, r.hit)]
        ELSE [base EXCEPT !.status = VERIFIED_FAIL,
                          !.targetHitTimestamp = Null,
                          !.timeToHitRatio = <<0, 1>>]

\* lines 128-171: the entity after analysis of a non-empty items, at time t
Analyze(call, items, t) ==
    LET r == Scan(items, 1, 0, Null, call.targetPrice)
        base == [call EXCEPT !.peakPriceDuringPeriod = r.peak,
                             !.finalPriceAtTargetDate = items[Len(items)].value,
                             !.verificationTimestamp = t]
    IN  IF IsSuccess(r.peak, r.hit, call.targetPrice)
        THEN [base EXCEPT !.status = VERIFIED_SUCCESS,
                          !.targetHitTimestamp = r.hit,
                          !.timeToHitRatio = TimeToHitRatio(call, r.hit)]
        ELSE [base EXCEPT !.status = VERIFIED_FAIL,
                          !.targetHitTimestamp = Null,
                          !.timeToHitRatio = NoRatio]

\* a catch block that stamps the entity and forgets its status
MarkError_KeepsStatus(call, t) ==
    [call EXCEPT !.verificationTimestamp = t]

\* the catch block of verifyPendingCalls, lines 71-72
MarkError(call, t) ==
    [call EXCEPT !.status = ERROR, !.verificationTimestamp = t]

----------------------------------------------------------------------------
(* updateUserTokenCallStreak *)

\* lines 230-233
VerificationTime(callStatus, verificationTimestamp, t) ==
    IF callStatus = VERIFIED_SUCCESS THEN verificationTimestamp ELSE t

\* the guard of lines 235-240
StreakRejects(s, verificationTime) ==
    /\ s.lastVerifiedCallTimestamp # Null
    /\ verificationTime <= s.lastVerifiedCallTimestamp

\* a fold that never raises the longest streak
FoldStreak_NoLongest(s, callStatus, verificationTime) ==
    LET cur == IF callStatus = VERIFIED_SUCCESS THEN s.currentSuccessStreak + 1
               ELSE IF callStatus = VERIFIED_FAIL /\ s.currentSuccessStreak > 0
                    THEN 0
               ELSE s.currentSuccessStreak
    IN  [s EXCEPT !.currentSuccessStreak = cur,
                  !.lastVerifiedCallTimestamp = verificationTime]

\* a fold in which a miss resets the longest streak too
FoldStreak_FailResetsLongest(s, callStatus, verificationTime) ==
    LET cur == IF callStatus = VERIFIED_SUCCESS THEN s.currentSuccessStreak + 1
               ELSE 0
        lng == IF callStatus = VERIFIED_SUCCESS
               THEN Max(cur, s.longestSuccessStreak) ELSE 0
    IN  [s EXCEPT !.currentSuccessStreak = cur,
                  !.longestSuccessStreak = lng,
                  !.lastVerifiedCallTimestamp = verificationTime]

\* lines 242-252
FoldStreak(s, callStatus, verificationTime) ==
    LET cur == IF callStatus = VERIFIED_SUCCESS THEN s.currentSuccessStreak + 1
               ELSE IF callStatus = VERIFIED_FAIL /\ s.currentSuccessStreak > 0
                    THEN 0
               ELSE s.currentSuccessStreak
        lng == IF callStatus = VERIFIED_SUCCESS /\ cur > s.longestSuccessStreak
               THEN cur ELSE s.longestSuccessStreak
    IN  [s EXCEPT !.currentSuccessStreak = cur,
                  !.longestSuccessStreak = lng,
                  !.lastVerifiedCallTimestamp = verificationTime]

----------------------------------------------------------------------------
(* verifyPendingCalls: the due-query *)

\* the due-query without the status condition
IsDue_AnyStatus(call, t) == call.targetDate <= t

\* the due-query without the target-date condition
IsDue_AnyDate(call, t) == call.status = PENDING

\* where: { status: PENDING, targetDate: LessThanOrEqual(now) }
IsDue(call, t) == call.status = PENDING /\ call.targetDate <= t

DueIds(store, t) == {c \in DOMAIN store : IsDue(store[c], t)}

\* the rows of find(), in any order the database returns them
QueryResults(store, t) ==
    LET due == DueIds(store, t)
        n == Cardinality(due)
    IN  {[k \in 1..n |-> store[f[k]]] :
            f \in {g \in [1..n -> due] : \A a, b \in 1..n : a # b => g[a] # g[b]}}

Ids(entities) == [k \in 1..Len(entities) |-> entities[k].id]

----------------------------------------------------------------------------
(* Initial state: the store holds NumCalls calls as the creation path      *)
(* inserted them (PENDING, no outputs, target date after the call          *)
(* timestamp); no streak row exists; no run is active.                     *)

\* the immutable inputs a validated insert can give a call
CallInputs(maxPrice) ==
    {a \in [userId : Users, tokenId : Tokens, targetPrice : 1..maxPrice,
            callTimestamp : 0..(MsPerSec - 1), targetDate : 1..MaxTargetDate] :
        a.callTimestamp < a.targetDate}

\* a store of n rows (users are interchangeable: row 1 belongs to "u1")
InitStores(n, maxPrice) ==
    {[c \in 1..n |->
         NewCall(c, a[c].userId, a[c].tokenId, a[c].targetPrice,
                 a[c].callTimestamp, a[c].targetDate)] :
     a \in {x \in [1..n -> CallInputs(maxPrice)] : x[1].userId = "u1"}}

InitWith(store) ==
    /\ now = 0
    /\ calls = store
    /\ streaks = [u \in Users |-> NoStreak]
    /\ isJobRunning = FALSE
    /\ inFlight = 0
    /\ pc = "idle"
    /\ runNow = Null
    /\ pendingCalls = <<>>
    /\ idx = 0
    /\ fetched = "none"
    /\ priceHistory = <<>>
    /\ streak = NoStreak
    /\ wakeAt = Null
    /\ attempted = <<>>
    /\ badgeChecks = {}
    /\ dueSeen = {}
    /\ newlyDue = FALSE

\* a store of NumCalls calls, coarse prices
Init == \E store \in InitStores(NumCalls, BatchMaxPrice) : InitWith(store)

\* a store of one call, fine prices
InitSingle == \E store \in InitStores(1, MaxPrice) : InitWith(store)

----------------------------------------------------------------------------
(* The clock *)

\* the clock advances by one tick, up to the last tick that is followed
ClockTick(last) ==
    /\ now < last
    /\ now' = now + 1
    /\ UNCHANGED <<calls, streaks, isJobRunning, inFlight, pc, runLocals,
                   badgeChecks, dueSeen>>

Tick == ClockTick(MaxTime)

----------------------------------------------------------------------------
(* handleCron *)

\* a finally block that leaves the guard set
FinishRun_KeepsGuard ==
    /\ isJobRunning' = TRUE
    /\ inFlight' = inFlight - 1
    /\ pc' = "idle"
    /\ runNow' = Null
    /\ pendingCalls' = <<>>
    /\ idx' = 0
    /\ fetched' = "none"
    /\ priceHistory' = <<>>
    /\ streak' = NoStreak
    /\ wakeAt' = Null
    /\ attempted' = <<>>
    /\ newlyDue' = FALSE

\* lines 42-45: the finally block, and the run's locals going out of scope
FinishRun ==
    /\ isJobRunning' = FALSE
    /\ inFlight' = inFlight - 1
    /\ pc' = "idle"
    /\ runNow' = Null
    /\ pendingCalls' = <<>>
    /\ idx' = 0
    /\ fetched' = "none"
    /\ priceHistory' = <<>>
    /\ streak' = NoStreak
    /\ wakeAt' = Null
    /\ attempted' = <<>>
    /\ newlyDue' = FALSE

\* lines 37-39 and 49: the guard is taken and the due-query is issued
StartRun ==
    /\ isJobRunning' = TRUE
    /\ inFlight' = inFlight + 1
    /\ runNow' = now
    /\ pc' = "query"
    /\ pendingCalls' = <<>>
    /\ idx' = 0
    /\ fetched' = "none"
    /\ priceHistory' = <<>>
    /\ streak' = NoStreak
    /\ wakeAt' = Null
    /\ attempted' = <<>>
    /\ newlyDue' = FALSE
    /\ UNCHANGED <<now, calls, streaks, badgeChecks, dueSeen>>

\* lines 30-35: the trigger fired while a run is active
SkipRun ==
    UNCHANGED vars

\* handleCron without the test of the guard
HandleCron_NoGuard == StartRun

\* the cron trigger fires (lines 26-39)
HandleCron ==
    IF isJobRunning THEN SkipRun ELSE StartRun

----------------------------------------------------------------------------
(* verifyPendingCalls *)

\* verifySingleCall(call) is invoked for record k: the price request is issued
EnterRecord(k, entities) ==
    /\ idx' = k
    /\ pc' = "fetch"
    /\ fetched' = "none"
    /\ priceHistory' = <<>>
    /\ streak' = NoStreak
    /\ wakeAt' = Null
    /\ attempted' = Append(attempted, entities[k].id)

\* the calls whose target date has passed at t, whatever their status
PastTarget(store, t) == {c \in DOMAIN store : store[c].targetDate <= t}

\* lines 50-64: find() answers
QueryOk ==
    /\ pc = "query"
    /\ \E rows \in QueryResults(calls, runNow) :
          IF Len(rows) = 0
          THEN FinishRun
          ELSE /\ pendingCalls' = rows
               /\ EnterRecord(1, rows)
               /\ newlyDue' = ~(PastTarget(calls, runNow) \subseteq dueSeen)
               /\ UNCHANGED <<isJobRunning, inFlight, runNow>>
    /\ dueSeen' = PastTarget(calls, runNow)
    /\ UNCHANGED <<now, calls, streaks, badgeChecks>>

\* a failed due-query that escapes handleCron before the guard is cleared
QueryFail_KeepsGuard ==
    /\ pc = "query"
    /\ FinishRun_KeepsGuard
    /\ UNCHANGED <<now, calls, streaks, badgeChecks, dueSeen>>

\* find() throws: verifyPendingCalls rejects, handleCron logs (lines 40-45)
QueryFail ==
    /\ pc = "query"
    /\ FinishRun
    /\ UNCHANGED <<now, calls, streaks, badgeChecks, dueSeen>>

\* line 81: the delay after a record starts
StartDelay ==
    /\ pc' = "delay"
    /\ wakeAt' = now + DelaySecs * MsPerSec

\* the catch block of lines 69-73: the entity is marked and its save issued
CatchError ==
    /\ pendingCalls' = [pendingCalls EXCEPT ![idx] = MarkError(Cur, now)]
    /\ pc' = "errSave"

\* a loop that does not advance: the same record is taken again
DelayDone_NoAdvance ==
    /\ pc = "delay"
    /\ now >= wakeAt
    /\ EnterRecord(idx, pendingCalls)
    /\ UNCHANGED <<now, calls, streaks, isJobRunning, inFlight, runNow,
                   pendingCalls, badgeChecks, dueSeen, newlyDue>>

\* a delay that is not awaited: the loop goes on before the timer fires
DelayDone_NoWait ==
    /\ pc = "delay"
    /\ IF idx < Len(pendingCalls)
       THEN /\ EnterRecord(idx + 1, pendingCalls)
            /\ UNCHANGED <<isJobRunning, inFlight, runNow, pendingCalls,
                           newlyDue>>
       ELSE FinishRun
    /\ UNCHANGED <<now, calls, streaks, badgeChecks, dueSeen>>

\* line 81 resolves: the loop goes to the next record, or the run ends
DelayDone ==
    /\ pc = "delay"
    /\ now >= wakeAt
    /\ IF idx < Len(pendingCalls)
       THEN /\ EnterRecord(idx + 1, pendingCalls)
            /\ UNCHANGED <<isJobRunning, inFlight, runNow, pendingCalls,
                           newlyDue>>
       ELSE FinishRun
    /\ UNCHANGED <<now, calls, streaks, badgeChecks, dueSeen>>

\* lines 73-78: the save of the ERROR status answers
ErrSaveOk ==
    /\ pc = "errSave"
    /\ calls' = [calls EXCEPT ![Cur.id] = Cur]
    /\ StartDelay
    /\ UNCHANGED <<now, streaks, isJobRunning, inFlight, runNow, pendingCalls,
                   idx, fetched, priceHistory, streak, attempted,
                   badgeChecks, dueSeen, newlyDue>>

\* a failed save of the ERROR status that escapes the loop and ends the run
ErrSaveFail_AbortsRun ==
    /\ pc = "errSave"
    /\ FinishRun
    /\ UNCHANGED <<now, calls, streaks, badgeChecks, dueSeen>>

\* lines 73-78: the save of the ERROR status fails and is only logged
ErrSaveFail ==
    /\ pc = "errSave"
    /\ StartDelay
    /\ UNCHANGED <<now, calls, streaks, isJobRunning, inFlight, runNow,
                   pendingCalls, idx, fetched, priceHistory, streak, attempted, badgeChecks, dueSeen, newlyDue>>

----------------------------------------------------------------------------
(* verifySingleCall *)

\* a failed request that escapes the loop: the rest of the batch is dropped
FetchError_AbortsBatch(kind) ==
    /\ pc = "fetch"
    /\ ~InvalidRange(Cur)
    /\ kind \in ErrorKinds
    /\ FinishRun
    /\ UNCHANGED <<now, calls, streaks, badgeChecks, dueSeen>>

\* lines 97-117 then 69-73: getTokenPriceHistory rejects, every kind of error
\* is rethrown and caught by the loop
FetchError(kind) ==
    /\ pc = "fetch"
    /\ ~InvalidRange(Cur)
    /\ kind \in ErrorKinds
    /\ fetched' = "error"
    /\ CatchError
    /\ UNCHANGED <<now, calls, streaks, isJobRunning, inFlight, runNow, idx,
                   priceHistory, streak, wakeAt, attempted,
                   badgeChecks, dueSeen, newlyDue>>

\* no items taken for a miss of the target
FetchEmpty_MarksFail ==
    /\ pc = "fetch"
    /\ fetched' = "empty"
    /\ pendingCalls' = [pendingCalls EXCEPT
                           ![idx].verificationTimestamp = now,
                           ![idx].status = VERIFIED_FAIL]
    /\ pc' = "save"
    /\ UNCHANGED <<now, calls, streaks, isJobRunning, inFlight, runNow, idx,
                   priceHistory, streak, wakeAt, attempted,
                   badgeChecks, dueSeen, newlyDue>>

\* a no-data path that postpones the target date of the call
FetchEmpty_MovesTargetDate ==
    /\ pc = "fetch"
    /\ fetched' = "empty"
    /\ pendingCalls' = [pendingCalls EXCEPT
                           ![idx].verificationTimestamp = now,
                           ![idx].targetDate = now + 1]
    /\ pc' = "save"
    /\ UNCHANGED <<now, calls, streaks, isJobRunning, inFlight, runNow, idx,
                   priceHistory, streak, wakeAt, attempted,
                   badgeChecks, dueSeen, newlyDue>>

\* lines 119-124: no items; the entity is stamped and its save issued
FetchEmpty ==
    /\ pc = "fetch"
    /\ fetched' = "empty"
    /\ pendingCalls' = [pendingCalls EXCEPT ![idx].verificationTimestamp = now]
    /\ pc' = "save"
    /\ UNCHANGED <<now, calls, streaks, isJobRunning, inFlight, runNow, idx,
                   priceHistory, streak, wakeAt, attempted,
                   badgeChecks, dueSeen, newlyDue>>

\* lines 128-175: items came back; the entity is analysed and the streak row
\* of its owner is asked for
FetchItems(maxLen, maxPrice) ==
    /\ pc = "fetch"
    /\ ~InvalidRange(Cur)
    /\ \E items \in SampleSeqs(Cur, maxLen, maxPrice) :
          /\ priceHistory' = items
          /\ pendingCalls' = [pendingCalls EXCEPT ![idx] = Analyze(Cur, items, now)]
    /\ fetched' = "items"
    /\ pc' = "streakFind"
    /\ UNCHANGED <<now, calls, streaks, isJobRunning, inFlight, runNow, idx,
                   streak, wakeAt, attempted, badgeChecks,
                   dueSeen, newlyDue>>

\* lines 217-254: findOne answers; the update is rejected, or folded into the
\* entity and its save issued
StreakFindOk ==
    /\ pc = "streakFind"
    /\ LET found == streaks[Cur.userId]
           s == IF found.exists THEN found ELSE CreateStreak
           verificationTime ==
               VerificationTime(Cur.status, Cur.verificationTimestamp, now)
       IN  IF StreakRejects(s, verificationTime)
           THEN /\ streak' = NoStreak
                /\ pc' = "save"
           ELSE /\ streak' = FoldStreak(s, Cur.status, verificationTime)
                /\ pc' = "streakSave"
    /\ UNCHANGED <<now, calls, streaks, isJobRunning, inFlight, runNow,
                   pendingCalls, idx, fetched, priceHistory, wakeAt, attempted, badgeChecks, dueSeen, newlyDue>>

\* a streak error that is not caught reaches the catch block of the loop
StreakFindFail_Propagates ==
    /\ pc = "streakFind"
    /\ CatchError
    /\ UNCHANGED <<now, calls, streaks, isJobRunning, inFlight, runNow, idx,
                   fetched, priceHistory, streak, wakeAt, attempted,
                   badgeChecks, dueSeen, newlyDue>>

\* findOne throws: caught and logged (lines 180-185), the call's save is issued
StreakFindFail ==
    /\ pc = "streakFind"
    /\ pc' = "save"
    /\ UNCHANGED <<now, calls, streaks, isJobRunning, inFlight, runNow,
                   pendingCalls, idx, fetched, priceHistory, streak, wakeAt,
                   attempted, badgeChecks, dueSeen, newlyDue>>

\* line 254: the streak row is written; then the call's save is issued
StreakSaveOk ==
    /\ pc = "streakSave"
    /\ streaks' = [streaks EXCEPT ![Cur.userId] = streak]
    /\ streak' = NoStreak
    /\ pc' = "save"
    /\ UNCHANGED <<now, calls, isJobRunning, inFlight, runNow, pendingCalls,
                   idx, fetched, priceHistory, wakeAt, attempted,
                   badgeChecks, dueSeen, newlyDue>>

\* line 254 throws: caught and logged (lines 180-185)
StreakSaveFail ==
    /\ pc = "streakSave"
    /\ streak' = NoStreak
    /\ pc' = "save"
    /\ UNCHANGED <<now, calls, streaks, isJobRunning, inFlight, runNow,
                   pendingCalls, idx, fetched, priceHistory, wakeAt, attempted, badgeChecks, dueSeen, newlyDue>>

\* a save after which the badge check is invoked whatever the outcome
SaveOk_BadgeForAnyOutcome ==
    /\ pc = "save"
    /\ calls' = [calls EXCEPT ![Cur.id] = Cur]
    /\ badgeChecks' = badgeChecks \cup {Cur.id}
    /\ pc' = "badge"
    /\ UNCHANGED <<now, streaks, isJobRunning, inFlight, runNow, pendingCalls,
                   idx, fetched, priceHistory, streak, wakeAt, attempted,
                   dueSeen, newlyDue>>

\* line 124 or 188: the call row is written; on success the badge check is
\* invoked (line 194), otherwise verifySingleCall returns
SaveOk ==
    /\ pc = "save"
    /\ calls' = [calls EXCEPT ![Cur.id] = Cur]
    /\ IF fetched = "items" /\ Cur.status = VERIFIED_SUCCESS
       THEN /\ badgeChecks' = badgeChecks \cup {Cur.id}
            /\ pc' = "badge"
            /\ UNCHANGED wakeAt
       ELSE /\ StartDelay
            /\ UNCHANGED badgeChecks
    /\ UNCHANGED <<now, streaks, isJobRunning, inFlight, runNow, pendingCalls,
                   idx, fetched, priceHistory, streak, attempted,
                   dueSeen, newlyDue>>

\* line 124 or 188 throws: verifySingleCall rejects, the loop catches
SaveFail ==
    /\ pc = "save"
    /\ CatchError
    /\ UNCHANGED <<now, calls, streaks, isJobRunning, inFlight, runNow, idx,
                   fetched, priceHistory, streak, wakeAt, attempted,
                   badgeChecks, dueSeen, newlyDue>>

\* a badge error that is not swallowed reaches the catch block of the loop
BadgeReturn_Unswallowed ==
    /\ pc = "badge"
    /\ CatchError
    /\ UNCHANGED <<now, calls, streaks, isJobRunning, inFlight, runNow, idx,
                   fetched, priceHistory, streak, wakeAt, attempted,
                   badgeChecks, dueSeen, newlyDue>>

\* lines 193-200: checkTokenCallSuccessBadges answers or throws (swallowed)
BadgeReturn ==
    /\ pc = "badge"
    /\ StartDelay
    /\ UNCHANGED <<now, calls, streaks, isJobRunning, inFlight, runNow,
                   pendingCalls, idx, fetched, priceHistory, streak, attempted, badgeChecks, dueSeen, newlyDue>>

----------------------------------------------------------------------------
\* the steps of the job with a provider of the given range
Step(maxLen, maxPrice) ==
    \/ Tick
    \/ HandleCron
    \/ QueryOk
    \/ QueryFail
    \/ \E kind \in ErrorKinds : FetchError(kind)
    \/ FetchEmpty
    \/ FetchItems(maxLen, maxPrice)
    \/ StreakFindOk
    \/ StreakFindFail
    \/ StreakSaveOk
    \/ StreakSaveFail
    \/ SaveOk
    \/ SaveFail
    \/ BadgeReturn
    \/ ErrSaveOk
    \/ ErrSaveFail
    \/ DelayDone

Next == Step(BatchMaxSamples, BatchMaxPrice)

NextSingle == Step(MaxSamples, MaxPrice)

\* the job over a store of NumCalls calls
Spec == Init /\ [][Next]_vars

\* the job over a store of one call, with the provider's full range
SpecSingle == InitSingle /\ [][NextSingle]_vars

----------------------------------------------------------------------------
(* The job with its scheduling: the trigger recurs forever, every await    *)
(* resolves, and the collaborators do not fail forever.                    *)

\* the clock past the last tick the model follows: time passes uncounted and
\* the timer of the delay comes one tick nearer
\* the clock is followed until the last target date has passed
TickLive == ClockTick(MaxTargetDate)

TickBeyond ==
    /\ now = MaxTargetDate
    /\ pc = "delay"
    /\ wakeAt > now
    /\ wakeAt' = wakeAt - 1
    /\ UNCHANGED <<now, calls, streaks, isJobRunning, inFlight, pc, runNow,
                   pendingCalls, idx, fetched, priceHistory, streak, attempted,
                   badgeChecks, dueSeen, newlyDue>>

\* the steps of a run: an await of the run resolves
JobStep ==
    \/ QueryOk
    \/ QueryFail
    \/ \E kind \in ErrorKinds : FetchError(kind)
    \/ FetchEmpty
    \/ FetchItems(BatchMaxSamples, BatchMaxPrice)
    \/ StreakFindOk
    \/ StreakFindFail
    \/ StreakSaveOk
    \/ StreakSaveFail
    \/ SaveOk
    \/ SaveFail
    \/ BadgeReturn
    \/ ErrSaveOk
    \/ ErrSaveFail
    \/ DelayDone

\* the provider answers a request with samples or with an error
ProviderAnswers ==
    \/ \E kind \in ErrorKinds : FetchError(kind)
    \/ FetchItems(BatchMaxSamples, BatchMaxPrice)

NextLive ==
    \/ TickLive
    \/ TickBeyond
    \/ HandleCron
    \/ JobStep

Fairness ==
    /\ WF_vars(TickLive)
    /\ WF_vars(TickBeyond)
    /\ WF_vars(HandleCron)
    /\ WF_vars(JobStep)
    /\ SF_vars(QueryOk)
    /\ SF_vars(ProviderAnswers)
    /\ SF_vars(ErrSaveOk)

\* a store of NumCalls calls of one user, all made at the first clock tick
InitLive ==
    \E store \in InitStores(NumCalls, BatchMaxPrice) :
        /\ \A c \in DOMAIN store :
              store[c].userId = "u1" /\ store[c].callTimestamp = 0
        /\ InitWith(store)

\* the job over a store of NumCalls calls, with its scheduling
SpecLive == InitLive /\ [][NextLive]_vars /\ Fairness

----------------------------------------------------------------------------
(* updateUserTokenCallStreak on its own: the method is invoked, by this    *)
(* job or by another instance of it on the same store, for a call that was *)
(* resolved to a success or a miss and stamped at some moment up to now.   *)
(* Both stores start empty.                                                *)

\* the statuses verifySingleCall passes to the method (lines 153, 168)
Resolved == {VERIFIED_SUCCESS, VERIFIED_FAIL}

InitStreak == InitWith(<<>>)

\* lines 175-179 and 207-219: the method is entered and findOne is issued
InvokeStreak ==
    /\ pc = "idle"
    /\ \E u \in Users, st \in Resolved, t \in 0..now :
          pendingCalls' = <<[NewCall(1, u, "t1", 1, 0, 1) EXCEPT
                                !.status = st, !.verificationTimestamp = t]>>
    /\ idx' = 1
    /\ pc' = "streakFind"
    /\ UNCHANGED <<now, calls, streaks, isJobRunning, inFlight, runNow, fetched,
                   priceHistory, streak, wakeAt, attempted, badgeChecks,
                   dueSeen, newlyDue>>

\* lines 239, 255 and 180-185: the method has returned or thrown
StreakReturn ==
    /\ pc = "save"
    /\ pc' = "idle"
    /\ pendingCalls' = <<>>
    /\ idx' = 0
    /\ UNCHANGED <<now, calls, streaks, isJobRunning, inFlight, runNow, fetched,
                   priceHistory, streak, wakeAt, attempted, badgeChecks,
                   dueSeen, newlyDue>>

NextStreak ==
    \/ Tick
    \/ InvokeStreak
    \/ StreakFindOk
    \/ StreakFindFail
    \/ StreakSaveOk
    \/ StreakSaveFail
    \/ StreakReturn

\* the streak update under every sequence of invocations
SpecStreak == InitStreak /\ [][NextStreak]_vars

----------------------------------------------------------------------------
(* The ratio computation on its own: verifySingleCall has found the call a *)
(* success (lines 153-154) and computes timeToHitRatio (lines 156-166),    *)
(* for every call timestamp, target date and hit timestamp, a target date  *)
(* at or before the call timestamp included.                               *)

\* the entity at line 154, with a hit at a whole second
RatioInputs ==
    {[NewCall(1, "u1", "t1", 1, ct, td) EXCEPT
         !.status = VERIFIED_SUCCESS, !.targetHitTimestamp = FromUnix(h)] :
     ct \in 0..MaxTargetDate, td \in 0..MaxTargetDate, h \in 0..MaxTargetDate}

InitRatio ==
    /\ now = 0
    /\ calls = <<>>
    /\ streaks = [u \in Users |-> NoStreak]
    /\ isJobRunning = TRUE
    /\ inFlight = 1
    /\ pc = "ratio"
    /\ runNow = 0
    /\ pendingCalls \in {<<e>> : e \in RatioInputs}
    /\ idx = 1
    /\ fetched = "items"
    /\ priceHistory = <<>>
    /\ streak = NoStreak
    /\ wakeAt = Null
    /\ attempted = <<1>>
    /\ badgeChecks = {}
    /\ dueSeen = {}
    /\ newlyDue = FALSE

\* lines 156-166
ComputeRatio ==
    /\ pc = "ratio"
    /\ pendingCalls' = [pendingCalls EXCEPT ![idx].timeToHitRatio =
                            TimeToHitRatio(Cur, Cur.targetHitTimestamp)]
    /\ pc' = "streakFind"
    /\ UNCHANGED <<now, calls, streaks, isJobRunning, inFlight, runNow, idx,
                   fetched, priceHistory, streak, wakeAt, attempted,
                   badgeChecks, dueSeen, newlyDue>>

NextRatio == ComputeRatio

\* the ratio computation over every input
SpecRatio == InitRatio /\ [][NextRatio]_vars

----------------------------------------------------------------------------
(* Helpers of the properties *)

NoDup(s) == \A a, b \in 1..Len(s) : a # b => s[a] # s[b]

\* the row of the record the loop is at, as the store holds it
StoredCur == calls[Cur.id]

\* the outcome fields of a row are all unset
NoOutputs(call) ==
    /\ call.peakPriceDuringPeriod = Null
    /\ call.finalPriceAtTargetDate = Null
    /\ call.targetHitTimestamp = Null
    /\ call.timeToHitRatio = NoRatio

\* the immutable inputs of two rows agree
SameInputs(a, b) ==
    /\ a.id = b.id /\ a.userId = b.userId /\ a.tokenId = b.tokenId
    /\ a.targetPrice = b.targetPrice
    /\ a.callTimestamp = b.callTimestamp /\ a.targetDate = b.targetDate

\* a run has issued its due-query and got rows
RunHasRows == pc \notin {"idle", "query"}

----------------------------------------------------------------------------
(* C1: at most one verification run is in flight; a trigger that fires     *)
(* while the guard is set changes nothing: no query, no write to a call or *)
(* streak row, no second run, and the guard stays set.                     *)
C1_OneRunInFlight ==
    /\ [](inFlight <= 1)
    /\ [](isJobRunning <=> inFlight = 1)
    /\ [](isJobRunning <=> pc # "idle")
    /\ [][(isJobRunning /\ HandleCron) => UNCHANGED vars]_vars

\* a run is suspended in the middle of a record: a trigger firing here is the
\* skipped one, and the state after it is this same state
C1_Witness == isJobRunning /\ inFlight = 1 /\ pc = "streakSave"

(* C2: a stored status only moves from PENDING to VERIFIED_SUCCESS,        *)
(* VERIFIED_FAIL or ERROR; a stored terminal status never changes again,   *)
(* save failures included.                                                 *)
C2_StatusOnlyLeavesPending ==
    [][\A c \in CallIds :
          calls'[c].status # calls[c].status
             => calls[c].status = PENDING /\ calls'[c].status \in Terminal]_vars

\* a call stored as ERROR after the save of its computed result failed, while
\* a later run is resolving another call
C2_Witness ==
    \E c \in CallIds :
        /\ calls[c].status = ERROR
        /\ calls[c].peakPriceDuringPeriod # Null
        /\ pc = "save"
        /\ \A k \in 1..Len(pendingCalls) : pendingCalls[k].id # c

(* C3 as stated: each record is mutated exactly once by the job, so every  *)
(* write of the job hits a row the job has never written.                  *)
C3_MutatedOnce ==
    [][\A c \in CallIds :
          calls'[c] # calls[c] => calls[c].verificationTimestamp = Null]_vars

(* C3 as amended: a row is written by the job at most once in each run     *)
(* that selects it and only while its stored status is PENDING; the write  *)
(* that stores a terminal status is the last one.  A row the job wrote and *)
(* left PENDING carries a verification timestamp and no outcome field.     *)
C3_MutatedOncePerRunUntilTerminal ==
    /\ [][\A c \in CallIds :
             calls'[c] # calls[c]
                => /\ calls[c].status = PENDING
                   /\ pc \in {"save", "errSave"}
                   /\ pc' \in {"badge", "delay"}
                   /\ Cur.id = c
                   /\ SameInputs(calls[c], calls'[c])
                   /\ calls'[c].verificationTimestamp # Null]_vars
    /\ [](NoDup(attempted))
    /\ [](\A c \in CallIds : calls[c].status = PENDING => NoOutputs(calls[c]))

\* a row stamped by an earlier run (no data) is resolved by a later one
C3_Witness ==
    /\ pc = "save"
    /\ fetched = "items"
    /\ StoredCur.verificationTimestamp # Null
    /\ StoredCur.status = PENDING

(* C4: a PENDING call whose target date is after the `now` of a run's      *)
(* due-query is not selected by that run, no price request is made for it, *)
(* none of its fields change during the run, and the streak store changes  *)
(* only on account of a selected call.                                     *)
C4_FutureCallsUntouched ==
    /\ [](RunHasRows =>
            \A k \in 1..Len(pendingCalls) : pendingCalls[k].targetDate <= runNow)
    /\ [](RunHasRows =>
            \A k \in 1..Len(attempted) : calls[attempted[k]].targetDate <= runNow)
    /\ [][\A c \in CallIds :
             (pc # "idle" /\ calls[c].targetDate > runNow) => calls'[c] = calls[c]]_vars
    /\ [][streaks' # streaks
             => /\ pc = "streakSave"
                /\ Cur.targetDate <= runNow
                /\ \A u \in Users : u # Cur.userId => streaks'[u] = streaks[u]]_vars

\* a run is at the delay after a record while another call, in the future when
\* the run queried, has become due meanwhile and is still as it was inserted
C4_Witness ==
    /\ pc = "delay"
    /\ \E c \in CallIds :
          /\ calls[c].targetDate > runNow
          /\ calls[c].targetDate <= now
          /\ calls[c].status = PENDING
          /\ calls[c].verificationTimestamp = Null

(* C5 as stated: a run whose due-query sees no target date that an earlier *)
(* due-query had not seen leaves both stores as they were.                 *)
C5_SecondRunChangesNothing ==
    [][(RunHasRows /\ ~newlyDue) => UNCHANGED <<calls, streaks>>]_vars

(* C5 as amended: a run does nothing for a call whose stored status is not *)
(* PENDING: every selected record is stored PENDING until its own save, a  *)
(* terminal row never changes, the streak store and the badge check are    *)
(* touched only for a record that is stored PENDING at that moment; and a  *)
(* run whose due-query finds every past-target call terminal selects       *)
(* nothing and leaves both stores and the badge checks as they were.       *)
C5_NoOpOnTerminalCalls ==
    /\ [](RunHasRows =>
            \A k \in 1..Len(pendingCalls) :
                (k > idx \/ (k = idx /\ pc \in {"fetch", "streakFind", "streakSave",
                                                 "save", "errSave"}))
                   => calls[pendingCalls[k].id].status = PENDING)
    /\ [][\A c \in CallIds :
             calls[c].status \in Terminal => calls'[c] = calls[c]]_vars
    /\ [][streaks' # streaks => StoredCur.status = PENDING]_vars
    /\ [][badgeChecks' # badgeChecks
             => /\ StoredCur.status = PENDING
                /\ badgeChecks' = badgeChecks \cup {Cur.id}]_vars
    /\ [][(pc = "query" /\ \A c \in PastTarget(calls, runNow) :
                               calls[c].status \in Terminal)
             => /\ pc' \in {"query", "idle"}
                /\ UNCHANGED <<calls, streaks, badgeChecks>>]_vars

\* a later run is at its due-query and every call whose target date has passed
\* was left terminal by an earlier run
C5_Witness ==
    /\ pc = "query"
    /\ dueSeen # {}
    /\ PastTarget(calls, runNow) = CallIds
    /\ \A c \in CallIds : calls[c].status \in Terminal

(* C6: one record's failure never aborts the batch: the records the        *)
(* due-query returned are attempted one by one in its order, the run ends  *)
(* only after the last of them, and what a record is resolved to is        *)
(* computed from its own stored row and its own samples alone.             *)
C6_FailureNeverAbortsBatch ==
    /\ [](RunHasRows =>
            /\ idx \in 1..Len(pendingCalls)
            /\ attempted = SubSeq(Ids(pendingCalls), 1, idx))
    /\ [][(RunHasRows /\ pc' = "idle") => attempted = Ids(pendingCalls)]_vars
    /\ [][(pc \in {"fetch", "save", "errSave"} /\ pc' \in {"errSave", "delay"})
             => (idx' = idx /\ attempted' = attempted
                 /\ Ids(pendingCalls') = Ids(pendingCalls))]_vars
    /\ [][(pc = "fetch" /\ pc' = "streakFind")
             => pendingCalls'[idx] = Analyze(StoredCur, priceHistory', now)]_vars

\* the first record of a batch of two failed and is stored as ERROR; the second
\* was resolved to a success and saved
C6_Witness ==
    /\ pc = "badge"
    /\ idx = 2
    /\ calls[pendingCalls[1].id].status = ERROR
    /\ StoredCur.status = VERIFIED_SUCCESS

(* C7 as stated: after a failed price-history request the call is stored   *)
(* with status ERROR and a verification timestamp.                         *)
C7_FetchErrorStoredAsError ==
    (pc = "delay" /\ fetched = "error")
       => (StoredCur.status = ERROR /\ StoredCur.verificationTimestamp # Null)

(* C7 as amended: after a failed price-history request, of any kind, the   *)
(* entity is marked ERROR with a verification timestamp and one save of it *)
(* is issued; the stored row is then that entity, or, if the save failed,  *)
(* the row as it was (PENDING).  The request is not repeated in the run,   *)
(* the streak store does not change, and a row stored as ERROR never       *)
(* changes and is never selected again.                                    *)
C7_FetchErrorMarksError ==
    /\ []((fetched = "error" /\ pc \in {"errSave", "delay"})
            => /\ Cur.status = ERROR
               /\ Cur.verificationTimestamp # Null
               /\ NoOutputs(Cur)
               /\ \/ StoredCur = Cur
                  \/ StoredCur.status = PENDING)
    /\ []((fetched = "error" /\ pc = "errSave") => StoredCur.status = PENDING)
    /\ [][\A kind \in ErrorKinds :
             FetchError(kind) => (fetched' = "error" /\ pc' = "errSave")]_vars
    /\ [][(fetched = "error" \/ fetched' = "error") => streaks' = streaks]_vars
    /\ [](NoDup(attempted))
    /\ [][\A c \in CallIds : calls[c].status = ERROR => calls'[c] = calls[c]]_vars
    /\ [][pc = "query"
             => \A k \in 1..Len(pendingCalls') :
                   calls[pendingCalls'[k].id].status # ERROR]_vars

\* the request of the record failed and the record is stored as ERROR
C7_Witness ==
    /\ pc = "delay"
    /\ fetched = "error"
    /\ StoredCur = Cur
    /\ StoredCur.status = ERROR

(* C8 as stated: after an empty answer the call is stored PENDING with     *)
(* only its verification timestamp changed.                                *)
C8_EmptyAnswerStoredPending ==
    (pc = "delay" /\ fetched = "empty")
       => /\ StoredCur.status = PENDING
          /\ StoredCur.verificationTimestamp # Null
          /\ NoOutputs(StoredCur)

(* C8 as amended: after an empty answer the entity is stamped with a       *)
(* verification timestamp and nothing else, and its save is issued; if the *)
(* save succeeds the row is stored PENDING with only that timestamp        *)
(* changed, and the next due-query that succeeds selects it again; if the  *)
(* save fails the record is marked ERROR like any failed record.  In both  *)
(* cases the streak store is not touched and no badge check is invoked.    *)
C8_EmptyAnswerStampsOnly ==
    /\ []((fetched = "empty" /\ pc = "save")
            => /\ Cur.verificationTimestamp # Null
               /\ Cur = [StoredCur EXCEPT
                            !.verificationTimestamp = Cur.verificationTimestamp]
               /\ Cur.status = PENDING
               /\ NoOutputs(Cur))
    /\ [][(fetched = "empty" /\ pc = "save" /\ calls' # calls)
             => /\ calls' = [calls EXCEPT ![Cur.id] = Cur]
                /\ pc' = "delay"]_vars
    /\ []((fetched = "empty" /\ pc = "delay")
            => \/ StoredCur.status = PENDING /\ NoOutputs(StoredCur)
               \/ Cur.status = ERROR)
    /\ [][(fetched = "empty" \/ fetched' = "empty")
             => UNCHANGED <<streaks, badgeChecks>>]_vars
    /\ [][QueryOk
             => \A c \in CallIds :
                   (calls[c].status = PENDING /\ calls[c].verificationTimestamp # Null)
                      => \E k \in 1..Len(pendingCalls') : pendingCalls'[k].id = c]_vars

\* a call an earlier run stamped after an empty answer is attempted again
C8_Witness ==
    /\ pc = "fetch"
    /\ StoredCur.status = PENDING
    /\ StoredCur.verificationTimestamp # Null
    /\ NoOutputs(StoredCur)

----------------------------------------------------------------------------
(* The sample sequence of the record the loop is at *)

\* the positions of the samples at or above the target price of the record
HitPositions == {k \in 1..Len(priceHistory) : priceHistory[k].value >= Cur.targetPrice}

\* the largest sample price
SampleMax ==
    CHOOSE v \in {priceHistory[k].value : k \in 1..Len(priceHistory)} :
        \A k \in 1..Len(priceHistory) : priceHistory[k].value <= v

\* the first position at or above the target price
FirstHit == CHOOSE k \in HitPositions : \A j \in HitPositions : k <= j

\* the record was analysed and its computed result is in the entity
Analysed == fetched = "items" /\ pc \in {"streakFind", "streakSave", "save"}

\* the record was analysed and a save of its entity succeeded
AnalysedAndStored ==
    /\ fetched = "items"
    /\ pc \in {"badge", "delay"}
    /\ StoredCur.verificationTimestamp = Cur.verificationTimestamp
    /\ StoredCur.peakPriceDuringPeriod # Null

(* C9: a due call with a non-empty sample sequence is resolved to          *)
(* VERIFIED_SUCCESS exactly when some sample is at or above the target     *)
(* price, to VERIFIED_FAIL otherwise; whenever the scan finds a hit the    *)
(* peak is at or above the target, so the second test never decides.       *)
C9_SuccessIffSomeSampleReachesTarget ==
    /\ fetched = "items" => Len(priceHistory) > 0
    /\ Analysed =>
          /\ Cur.status = (IF HitPositions # {} THEN VERIFIED_SUCCESS ELSE VERIFIED_FAIL)
          /\ LET r == Scan(priceHistory, 1, 0, Null, Cur.targetPrice)
             IN  (r.hit # Null) => (r.peak >= Cur.targetPrice)
    /\ (AnalysedAndStored /\ StoredCur.status # ERROR) =>
          StoredCur.status = (IF HitPositions # {} THEN VERIFIED_SUCCESS ELSE VERIFIED_FAIL)

\* a success stored for a sequence whose first sample is below the target and
\* whose second sample is exactly at it
C9_Witness ==
    /\ pc = "badge"
    /\ Len(priceHistory) = 2
    /\ priceHistory[1].value < Cur.targetPrice
    /\ priceHistory[2].value = Cur.targetPrice
    /\ StoredCur.status = VERIFIED_SUCCESS

(* C10: for a non-empty sample sequence the peak price is the largest      *)
(* sample price, the final price is the price of the last sample, and the  *)
(* target-hit timestamp is the timestamp of the first sample at or above   *)
(* the target price, in the entity and in the row once it is stored.       *)
C10_PeakFinalAndFirstHit ==
    /\ Analysed =>
          /\ Cur.peakPriceDuringPeriod = SampleMax
          /\ Cur.finalPriceAtTargetDate = priceHistory[Len(priceHistory)].value
          /\ HitPositions # {} =>
                Cur.targetHitTimestamp = FromUnix(priceHistory[FirstHit].unixTime)
    /\ AnalysedAndStored =>
          /\ StoredCur.peakPriceDuringPeriod = SampleMax
          /\ StoredCur.finalPriceAtTargetDate = priceHistory[Len(priceHistory)].value
          /\ HitPositions # {} =>
                StoredCur.targetHitTimestamp = FromUnix(priceHistory[FirstHit].unixTime)

\* a stored result for two samples both at or above the target, the first one
\* the peak and the second one, lower, the final price
C10_Witness ==
    /\ AnalysedAndStored
    /\ Len(priceHistory) = 2
    /\ HitPositions = {1, 2}
    /\ priceHistory[1].value > priceHistory[2].value
    /\ StoredCur.status = VERIFIED_SUCCESS
    /\ StoredCur.targetHitTimestamp = FromUnix(priceHistory[1].unixTime)

----------------------------------------------------------------------------
\* a quotient <<numerator, denominator>> lies in [0, 1]
InUnitInterval(q) == q[2] > 0 /\ 0 <= q[1] /\ q[1] <= q[2]

(* C11: every call stored as VERIFIED_SUCCESS has a time-to-hit ratio in   *)
(* [0, 1] and a target-hit timestamp not after its target date, for every  *)
(* sample sequence whose timestamps lie in the requested window; the same  *)
(* holds of the analysed entity before it is saved.                        *)
C11_SuccessRatioInUnitInterval ==
    /\ \A c \in CallIds :
          calls[c].status = VERIFIED_SUCCESS
             => /\ InUnitInterval(calls[c].timeToHitRatio)
                /\ calls[c].targetHitTimestamp # Null
                /\ calls[c].targetHitTimestamp <= calls[c].targetDate
    /\ (Analysed /\ Cur.status = VERIFIED_SUCCESS)
          => /\ InUnitInterval(Cur.timeToHitRatio)
             /\ Cur.targetHitTimestamp <= Cur.targetDate

\* a stored success whose hit sample is stamped, after the rounding to whole
\* seconds, before the call timestamp: the ratio is clamped to 0
C11_Witness ==
    \E c \in CallIds :
        /\ calls[c].status = VERIFIED_SUCCESS
        /\ calls[c].targetHitTimestamp < calls[c].callTimestamp
        /\ calls[c].timeToHitRatio[1] = 0

(* C12: every call stored as VERIFIED_FAIL has target-hit timestamp and    *)
(* ratio null and a peak price below its target price; every call stored   *)
(* as VERIFIED_SUCCESS has both the target-hit timestamp and the ratio set.*)
C12_FailHasNoHitSuccessHasHit ==
    \A c \in CallIds :
        /\ calls[c].status = VERIFIED_FAIL
              => /\ calls[c].targetHitTimestamp = Null
                 /\ calls[c].timeToHitRatio = NoRatio
                 /\ calls[c].peakPriceDuringPeriod # Null
                 /\ calls[c].peakPriceDuringPeriod < calls[c].targetPrice
        /\ calls[c].status = VERIFIED_SUCCESS
              => /\ calls[c].targetHitTimestamp # Null
                 /\ calls[c].timeToHitRatio # NoRatio

\* a stored miss whose peak is one below the target and above the final price
C12_Witness ==
    \E c \in CallIds :
        /\ calls[c].status = VERIFIED_FAIL
        /\ calls[c].peakPriceDuringPeriod = calls[c].targetPrice - 1
        /\ calls[c].finalPriceAtTargetDate < calls[c].peakPriceDuringPeriod

(* C13: every stored streak record has                                     *)
(* longestSuccessStreak >= currentSuccessStreak >= 0.                      *)
C13_LongestAtLeastCurrent ==
    \A u \in Users :
        /\ streaks[u].currentSuccessStreak >= 0
        /\ streaks[u].longestSuccessStreak >= streaks[u].currentSuccessStreak

\* two successes of one user were folded in: current and longest are both 2
C13_Witness ==
    \E u \in Users :
        /\ streaks[u].currentSuccessStreak = 2
        /\ streaks[u].longestSuccessStreak = 2

(* C14: longestSuccessStreak of a user never decreases: across every step, *)
(* an accepted success or miss, a rejected update or a failed save of the  *)
(* streak row, the stored value is at least what it was.                   *)
C14_LongestNeverDecreases ==
    [][\A u \in Users :
          streaks'[u].longestSuccessStreak >= streaks[u].longestSuccessStreak]_vars

\* a miss was folded in after a success: current is back to 0, longest stays 1
C14_Witness ==
    /\ pc = "save"
    /\ Cur.status = VERIFIED_FAIL
    /\ streaks[Cur.userId].currentSuccessStreak = 0
    /\ streaks[Cur.userId].longestSuccessStreak = 1
    /\ streaks[Cur.userId].lastVerifiedCallTimestamp >= Cur.verificationTimestamp

----------------------------------------------------------------------------
\* the stored streak row of the owner of the record at hand
OwnerStreak == streaks[Cur.userId]

\* the stored last-verified timestamp is set and the call's own verification
\* timestamp is not after it
StaleCall ==
    /\ OwnerStreak.lastVerifiedCallTimestamp # Null
    /\ Cur.verificationTimestamp <= OwnerStreak.lastVerifiedCallTimestamp

(* C15 as stated: a streak update, for a success or for a miss, whose      *)
(* incoming verification timestamp is not strictly after the stored        *)
(* last-verified timestamp leaves the streak record unchanged and issues   *)
(* no save.                                                                *)
C15_StaleUpdateRejected ==
    [][(pc = "streakFind" /\ pc' # "streakFind" /\ StaleCall)
          => (pc' = "save" /\ streak' = NoStreak /\ streaks' = streaks)]_vars

(* C15, the part the code keeps: a stale update for a success is rejected, *)
(* and a stale update for a miss is rejected only when the clock read at   *)
(* the guard is itself not after the stored last-verified timestamp.       *)
C15_StaleSuccessRejected ==
    [][(pc = "streakFind" /\ pc' # "streakFind" /\ StaleCall
          /\ (Cur.status = VERIFIED_SUCCESS
               \/ now <= OwnerStreak.lastVerifiedCallTimestamp))
          => (pc' = "save" /\ streak' = NoStreak /\ streaks' = streaks)]_vars

\* a stale update for a miss passed the guard: the save of a row with the
\* current streak reset is issued
C15_Witness ==
    /\ pc = "streakSave"
    /\ Cur.status = VERIFIED_FAIL
    /\ StaleCall
    /\ OwnerStreak.currentSuccessStreak > 0
    /\ streak.currentSuccessStreak = 0

(* C16: an accepted streak update creates the row with current = longest = *)
(* 0 if the user has none; a success adds exactly 1 to current and makes   *)
(* longest the larger of longest and the new current; a miss sets current  *)
(* to 0 and leaves longest; no other user's row changes.                   *)
C16_FoldOfAcceptedUpdate ==
    /\ [](\A u \in Users :
            ~streaks[u].exists => streaks[u] = NoStreak)
    /\ [][streaks' # streaks
             => /\ pc = "streakSave"
                /\ \A u \in Users : u # Cur.userId => streaks'[u] = streaks[u]
                /\ streaks'[Cur.userId].exists
                /\ Cur.status = VERIFIED_SUCCESS
                      => /\ streaks'[Cur.userId].currentSuccessStreak
                              = OwnerStreak.currentSuccessStreak + 1
                         /\ streaks'[Cur.userId].longestSuccessStreak
                              = Max(OwnerStreak.longestSuccessStreak,
                                    OwnerStreak.currentSuccessStreak + 1)
                /\ Cur.status = VERIFIED_FAIL
                      => /\ streaks'[Cur.userId].currentSuccessStreak = 0
                         /\ streaks'[Cur.userId].longestSuccessStreak
                              = OwnerStreak.longestSuccessStreak]_vars

\* two successes and then a miss of one user: current 0, longest 2
C16_Witness ==
    /\ pc = "save"
    /\ Cur.status = VERIFIED_FAIL
    /\ OwnerStreak.currentSuccessStreak = 0
    /\ OwnerStreak.longestSuccessStreak = 2
    /\ OwnerStreak.lastVerifiedCallTimestamp >= Cur.verificationTimestamp

(* C18 as stated: the Streak Store is never changed on account of a call   *)
(* whose verification result has not yet been saved to the Token Call      *)
(* Store.                                                                  *)
C18_CallSavedBeforeStreak ==
    [][streaks' # streaks => StoredCur = Cur]_vars

\* a success was folded into the streak of the owner, then the save of the
\* call failed: the call is stored as ERROR and the streak counts it
C18_Witness ==
    /\ pc = "delay"
    /\ fetched = "items"
    /\ StoredCur.status = ERROR
    /\ OwnerStreak.currentSuccessStreak = 1

(* C19 as stated: after an accepted streak update the stored last-verified *)
(* timestamp is the verification timestamp of the call that was folded in, *)
(* for a miss as for a success.                                            *)
C19_LastVerifiedIsCallTimestamp ==
    [][streaks' # streaks
          => streaks'[Cur.userId].lastVerifiedCallTimestamp
               = Cur.verificationTimestamp]_vars

\* a miss was folded in and the stored last-verified timestamp is later than
\* the verification timestamp of the call
C19_Witness ==
    /\ pc = "save"
    /\ fetched = "items"
    /\ Cur.status = VERIFIED_FAIL
    /\ OwnerStreak.lastVerifiedCallTimestamp # Null
    /\ OwnerStreak.lastVerifiedCallTimestamp > Cur.verificationTimestamp

(* C20: a failure of the streak update is contained: the step in which the *)
(* load or the save of the streak row throws changes neither store nor the *)
(* entity and goes on to the save of the call; the entity saved is the     *)
(* analysis of the stored row and its samples with status VERIFIED_SUCCESS *)
(* or VERIFIED_FAIL, a success of that save stores it and invokes the      *)
(* badge check for a success, and an analysed record reaches the catch     *)
(* block only from a failed save of the call, never from the streak step.  *)
C20_StreakFailureContained ==
    /\ [][(pc \in {"streakFind", "streakSave"} /\ pc' \notin {"streakFind", "streakSave"})
             => /\ pc' = "save"
                /\ calls' = calls
                /\ pendingCalls' = pendingCalls
                /\ badgeChecks' = badgeChecks]_vars
    /\ []((fetched = "items" /\ pc \in {"streakFind", "streakSave", "save"})
            => /\ Cur.status \in {VERIFIED_SUCCESS, VERIFIED_FAIL}
               /\ Cur = Analyze(StoredCur, priceHistory, Cur.verificationTimestamp))
    /\ [][(fetched = "items" /\ pc = "save" /\ calls' # calls)
             => /\ calls' = [calls EXCEPT ![Cur.id] = Cur]
                /\ Cur.status = VERIFIED_SUCCESS
                      => (pc' = "badge" /\ Cur.id \in badgeChecks')]_vars
    /\ [][(fetched = "items" /\ pc # "errSave" /\ pc' = "errSave")
             => pc = "save"]_vars

\* a success is stored and its badge check invoked although its owner has no
\* streak row: the streak update of this call failed
C20_Witness ==
    /\ pc = "badge"
    /\ StoredCur.status = VERIFIED_SUCCESS
    /\ StoredCur = Cur
    /\ Cur.id \in badgeChecks
    /\ ~OwnerStreak.exists

----------------------------------------------------------------------------
\* verifySingleCall is being run for call c
Attempting(c) == InRecord /\ Cur.id = c

----------------------------------------------------------------------------
(* C21: the badge check is invoked for a call only in the step in which    *)
(* the save of its VERIFIED_SUCCESS result succeeds; every call it was     *)
(* invoked for is stored as VERIFIED_SUCCESS, so never for a miss, an      *)
(* ERROR or a no-data outcome; its return, a throw included, changes       *)
(* neither the stored calls nor the streaks and leads to the delay and the *)
(* next record.                                                            *)
C21_BadgeOnlyAfterSavedSuccess ==
    /\ [][badgeChecks' # badgeChecks
             => /\ pc = "save" /\ pc' = "badge"
                /\ fetched = "items"
                /\ badgeChecks' = badgeChecks \cup {Cur.id}
                /\ Cur.status = VERIFIED_SUCCESS
                /\ calls'[Cur.id] = Cur]_vars
    /\ [](\A c \in badgeChecks : calls[c].status = VERIFIED_SUCCESS)
    /\ [](pc = "badge" => (StoredCur = Cur /\ Cur.id \in badgeChecks))
    /\ [][(pc = "badge" /\ pc' # "badge")
             => /\ pc' = "delay"
                /\ UNCHANGED <<calls, streaks, pendingCalls, idx, attempted>>]_vars
    /\ [][(pc = "delay" /\ pc' = "idle") => idx = Len(pendingCalls)]_vars

\* the badge check of the first record of a batch has returned and the second
\* record, which is not a success, is at its save
C21_Witness ==
    /\ pc = "save"
    /\ idx = 2
    /\ pendingCalls[1].id \in badgeChecks
    /\ Cur.status # VERIFIED_SUCCESS
    /\ Cur.id \notin badgeChecks

(* C22: when the save of the ERROR status fails, the stored record is left *)
(* as it was, PENDING with its previous field values; the loop goes on to  *)
(* the delay and the next record; and the next due-query that answers      *)
(* returns the record again.                                               *)
C22_FailedErrorSaveLeavesPending ==
    /\ [](pc = "errSave" => (StoredCur.status = PENDING /\ Cur.status = ERROR))
    /\ [][(pc = "errSave" /\ pc' # "errSave")
             => /\ pc' = "delay"
                /\ idx' = idx /\ pendingCalls' = pendingCalls
                /\ attempted' = attempted
                /\ UNCHANGED <<streaks, badgeChecks>>
                /\ \/ calls' = calls
                   \/ calls' = [calls EXCEPT ![Cur.id] = Cur]]_vars
    /\ [][(pc = "delay" /\ pc' = "idle") => idx = Len(pendingCalls)]_vars
    /\ [][(pc = "delay" /\ pc' = "fetch") => idx' = idx + 1]_vars
    /\ [][(pc = "query" /\ pc' = "fetch")
             => \A c \in CallIds :
                   (calls[c].status = PENDING /\ c \in dueSeen)
                      => \E k \in 1..Len(pendingCalls') : pendingCalls'[k].id = c]_vars

\* a run that sees no newly due call is attempting a record the store holds
\* untouched: an earlier run selected it, failed on it, and failed to save ERROR
C22_Witness ==
    /\ pc = "fetch"
    /\ ~newlyDue
    /\ StoredCur = Cur
    /\ Cur.status = PENDING
    /\ Cur.verificationTimestamp = Null

(* C24: the records of a run are resolved one after another: the request   *)
(* for record k+1 is issued only from the delay after record k, once its   *)
(* timer of DelaySecs has fired; every write to a store, every change of   *)
(* an entity and every badge check is for the record the loop is at; and   *)
(* one execution, so one price request, is in flight at most.              *)
C24_RecordsStrictlySequential ==
    /\ [](inFlight <= 1)
    /\ [](RunHasRows => (idx \in 1..Len(pendingCalls) /\ Len(attempted) = idx))
    /\ [][(pc # "delay" /\ pc' = "delay")
             => wakeAt' = now + DelaySecs * MsPerSec]_vars
    /\ [][(RunHasRows /\ pc' = "fetch" /\ pc # "fetch")
             => /\ pc = "delay"
                /\ now >= wakeAt
                /\ idx' = idx + 1
                /\ UNCHANGED <<calls, streaks, badgeChecks, pendingCalls>>]_vars
    /\ [][RunHasRows
             => /\ \A c \in CallIds : calls'[c] # calls[c] => c = Cur.id
                /\ \A u \in Users : streaks'[u] # streaks[u] => u = Cur.userId
                /\ badgeChecks' \subseteq badgeChecks \cup {Cur.id}
                /\ pc' # "idle"
                      => \A k \in 1..Len(pendingCalls) :
                            pendingCalls'[k] # pendingCalls[k] => k = idx]_vars

\* the request of the second record is issued, a full delay after the stored
\* result of the first
C24_Witness ==
    /\ pc = "fetch"
    /\ idx = 2
    /\ calls[pendingCalls[1].id].status \in Terminal
    /\ now >= calls[pendingCalls[1].id].verificationTimestamp + DelaySecs * MsPerSec

----------------------------------------------------------------------------
(* C23: every run that starts eventually finishes and clears the guard,    *)
(* whether the batch completed, the due-list was empty or the due-query    *)
(* failed; the step in which the due-query fails or finds nothing changes  *)
(* no call and no streak row; the guard is set exactly while a run is in   *)
(* progress, so between runs a trigger starts a new run.                   *)
C23_EveryRunFinishes ==
    /\ isJobRunning ~> ~isJobRunning
    /\ [](isJobRunning <=> pc # "idle")
    /\ [][(pc = "query" /\ pc' = "idle")
             => (~isJobRunning' /\ UNCHANGED <<calls, streaks, badgeChecks>>)]_vars
    /\ [][(pc # "idle" /\ pc' = "idle")
             => /\ ~isJobRunning' /\ inFlight' = 0
                /\ \/ pc = "query"
                   \/ pc = "delay" /\ idx = Len(pendingCalls)]_vars
    /\ [][(~isJobRunning /\ HandleCron) => (isJobRunning' /\ pc' = "query")]_vars

\* a later run is at its due-query after an earlier run completed a batch
C23_Witness ==
    /\ isJobRunning
    /\ pc = "query"
    /\ \E c \in CallIds : calls[c].status \in Terminal
    /\ \E c \in CallIds : calls[c].status = PENDING /\ calls[c].targetDate <= runNow

----------------------------------------------------------------------------
(* C26: the ratio of a success is max(0, hit - call time) over (target     *)
(* date - call time) when that duration is positive; otherwise it is 1 if  *)
(* the hit is after the call time and 0 if not; the divisor is never 0,    *)
(* and a hit stamped before the call time gives 0.                         *)
C26_RatioComputation ==
    pc = "streakFind" =>
        LET duration == Cur.targetDate - Cur.callTimestamp
            toHit == Cur.targetHitTimestamp - Cur.callTimestamp
            q == Cur.timeToHitRatio
        IN  /\ q[2] # 0
            /\ duration > 0 => q = <<IF toHit > 0 THEN toHit ELSE 0, duration>>
            /\ (duration <= 0 /\ toHit > 0) => q = <<1, 1>>
            /\ (duration <= 0 /\ toHit <= 0) => q = <<0, 1>>
            /\ toHit < 0 => q[1] = 0

\* the target date is the call timestamp and the hit is after it: ratio 1
C26_Witness ==
    /\ pc = "streakFind"
    /\ Cur.targetDate = Cur.callTimestamp
    /\ Cur.targetHitTimestamp > Cur.callTimestamp
    /\ Cur.timeToHitRatio = <<1, 1>>

----------------------------------------------------------------------------
\* the immutable inputs of a call, all seven, agree in two rows
ImmutableInputs(a, b) ==
    /\ a.id = b.id
    /\ a.userId = b.userId
    /\ a.tokenId = b.tokenId
    /\ a.referencePrice = b.referencePrice
    /\ a.targetPrice = b.targetPrice
    /\ a.referenceSupply = b.referenceSupply
    /\ a.callTimestamp = b.callTimestamp
    /\ a.targetDate = b.targetDate

(* C27: the job deletes no call and no streak row and changes no immutable *)
(* input: across every step the store holds the same calls with the same   *)
(* user id, token id, reference price, target price, reference supply,     *)
(* call timestamp and target date, in the store and in the entities of the *)
(* run, and a streak row that exists keeps existing.                       *)
C27_NothingDeletedInputsKept ==
    /\ [][/\ DOMAIN calls' = DOMAIN calls
          /\ \A c \in DOMAIN calls : ImmutableInputs(calls[c], calls'[c])
          /\ \A u \in Users : streaks[u].exists => streaks'[u].exists]_vars
    /\ [](RunHasRows =>
            \A k \in 1..Len(pendingCalls) :
                ImmutableInputs(pendingCalls[k], calls[pendingCalls[k].id]))

\* after the runs every call is terminal, some owner has a streak row, and no
\* run is active
C27_Witness ==
    /\ pc = "idle"
    /\ \A c \in CallIds : calls[c].status \in Terminal
    /\ \E c \in CallIds : calls[c].status = ERROR
    /\ \E u \in Users : streaks[u].exists

----------------------------------------------------------------------------
\* the calls of user u in the store
CallsOf(u) == {c \in CallIds : calls[c].userId = u}

(* C25 as stated: when the same call is processed twice, the second apply  *)
(* of its outcome to the streak of its owner is rejected by the guard.     *)
(* The store holds one call, so a streak row that exists was written by an *)
(* earlier apply of this call.                                             *)
C25_SecondApplyRejected ==
    [][(pc = "streakFind" /\ pc' # "streakFind" /\ OwnerStreak.exists)
          => (pc' = "save" /\ streak' = NoStreak /\ streaks' = streaks)]_vars

\* the only call of the store is processed a second time, as a success, and
\* the save of a streak row that counts it twice is issued
C25_Witness ==
    /\ pc = "streakSave"
    /\ Cardinality(CallIds) = 1
    /\ Cur.status = VERIFIED_SUCCESS
    /\ OwnerStreak.currentSuccessStreak = 1
    /\ streak.currentSuccessStreak = 2

(* C28 as stated: under a single runner each call is folded into the       *)
(* streak of its owner at most once over all runs, so the current streak   *)
(* of a user never exceeds the number of calls of that user.               *)
C28_CallFoldedAtMostOnce ==
    \A u \in Users :
        streaks[u].currentSuccessStreak <= Cardinality(CallsOf(u))

\* the store holds one call, still PENDING after two runs whose saves failed,
\* and the streak of its owner stands at 2
C28_Witness ==
    /\ pc = "idle"
    /\ Cardinality(CallIds) = 1
    /\ \A c \in CallIds :
          /\ calls[c].status = PENDING
          /\ streaks[calls[c].userId].currentSuccessStreak = 2

(* C29 as stated: a streak row changes only on account of calls stored as  *)
(* VERIFIED_SUCCESS or VERIFIED_FAIL, so, between runs, a user all of      *)
(* whose calls are stored as ERROR or PENDING has no streak row.           *)
C29_StreakOnlyFromResolvedCalls ==
    \A u \in Users :
        (pc = "idle" /\ \A c \in CallsOf(u) : calls[c].status \in {ERROR, PENDING})
           => ~streaks[u].exists

\* between runs, the only call of the store is stored as ERROR and the streak
\* row of its owner carries the timestamp of its verification
C29_Witness ==
    /\ pc = "idle"
    /\ Cardinality(CallIds) = 1
    /\ \A c \in CallIds :
          /\ calls[c].status = ERROR
          /\ streaks[calls[c].userId].exists
          /\ streaks[calls[c].userId].lastVerifiedCallTimestamp # Null

(* C30 as stated: a stored call has a target-hit timestamp or a ratio only *)
(* if it is stored as VERIFIED_SUCCESS, and a peak or final price only if  *)
(* it is stored as VERIFIED_SUCCESS or VERIFIED_FAIL.                      *)
C30_OutcomeFieldsOnlyWhenResolved ==
    \A c \in CallIds :
        /\ (calls[c].targetHitTimestamp # Null \/ calls[c].timeToHitRatio # NoRatio)
              => calls[c].status = VERIFIED_SUCCESS
        /\ (calls[c].peakPriceDuringPeriod # Null
               \/ calls[c].finalPriceAtTargetDate # Null)
              => calls[c].status \in {VERIFIED_SUCCESS, VERIFIED_FAIL}

(* C30, the part the code keeps: a call stored as PENDING carries no       *)
(* outcome field, a call stored as VERIFIED_FAIL no hit and no ratio, and  *)
(* a call stored as ERROR carries exactly what the analysis had computed   *)
(* before the save failed, or nothing.                                     *)
C30_OutcomeFieldsOfStoredCalls ==
    \A c \in CallIds :
        /\ calls[c].status = PENDING => NoOutputs(calls[c])
        /\ calls[c].status = VERIFIED_FAIL
              => (calls[c].targetHitTimestamp = Null
                  /\ calls[c].timeToHitRatio = NoRatio)
        /\ calls[c].status = ERROR
              => \/ NoOutputs(calls[c])
                 \/ /\ calls[c].peakPriceDuringPeriod # Null
                    /\ calls[c].finalPriceAtTargetDate # Null
                    /\ (calls[c].targetHitTimestamp = Null)
                          <=> (calls[c].timeToHitRatio = NoRatio)

\* a call stored as ERROR with the target-hit timestamp, the ratio and the
\* prices of a success whose save failed
C30_Witness ==
    \E c \in CallIds :
        /\ calls[c].status = ERROR
        /\ calls[c].targetHitTimestamp # Null
        /\ calls[c].timeToHitRatio # NoRatio
        /\ calls[c].peakPriceDuringPeriod >= calls[c].targetPrice

====
